---- MODULE Spec2Model ----
(***************************************************************************)
(* Q15 saturating axpy, y[i] = sat_q15(a[i] + alpha * b[i]), as computed   *)
(* by q15_axpy_ref (scalar loop) and q15_axpy_rvv (RVV strip-mined loop or *)
(* compile-time fallback) of src/q15_axpy_challenge.c.                     *)
(*                                                                         *)
(* C arrays are 0-based; sequences here are 1-based, so C index k is       *)
(* element k+1 of the sequence.  A vector register is the sequence of its  *)
(* vl active lanes.                                                        *)
(***************************************************************************)
EXTENDS Integers, Sequences, FiniteSets, TLC

\* ------------------------------------------------------------------ bounds
\* Largest array length n explored.
MaxN == 5
\* Largest hardware VLMAX (lanes of e16/m1 per vector register) explored.
MaxVLMAX == 3
\* Elements the caller's buffers hold beyond index n-1.
Pad == 1

\* ------------------------------------------------------ program constants
Q15_MAX == 32767
Q15_MIN == -32768

\* ------------------------------------------------------------ input data
\* Test patterns the arrays are cut from: a is a cyclic window of PatA and
\* b a cyclic window of PatB, at independent offsets, so every pair
\* (PatA value, PatB value) meets at some index.
PatA == <<100, 32767, -32768, -1>>
PatB == <<10, 32767, -32768, 1>>
AlphaVals == {-32768, -1, 0, 2, 32767}
\* Contents of the caller's output buffer before the call (aligned_alloc
\* leaves it uninitialised).
YFill == {0, 21845}
\* What a load outside the array may return.
OobVals == {0, -1}

Window(pat, off, len) == [j \in 1..len |-> pat[((off + j - 1) % Len(pat)) + 1]]

Min(x, y) == IF x < y THEN x ELSE y
Max(x, y) == IF x > y THEN x ELSE y

\* ------------------------------------------------------- integer widths
\* Every value below stays inside the signed 32-bit range, so 32-bit
\* arithmetic is done on 16-bit halves and overflow is tested before the
\* operation that would overflow.
INT32_MAX == (2^30 - 1) + 2^30
INT32_MIN == (-INT32_MAX) - 1

\* the low 16 bits of v, read as a signed 16-bit integer
Wrap16(v) == (((v % 65536) + 32768) % 65536) - 32768

\* x + y fits in int32_t
AddFits32(x, y) ==
    /\ y > 0 => x <= INT32_MAX - y
    /\ y < 0 => x >= INT32_MIN - y

\* x + y modulo 2^32, read as signed
AddWrap32(x, y) ==
    LET xl == x % 65536
        yl == y % 65536
        xh == (x - xl) \div 65536
        yh == (y - yl) \div 65536
        lo == xl + yl
        hi == Wrap16(xh + yh + (lo \div 65536))
    IN  hi * 65536 + (lo % 65536)

\* sign extension of a 16-bit lane / (int32_t)x of an int16_t x
SExt32(x) == Wrap16(x)

\* The exact integer a + alpha*b.
Exact(av, bv, al) == av + al * bv

\* The value of saturate_16 on an exact integer.
Saturate16(v) == IF v > 32767 THEN 32767 ELSE IF v < -32768 THEN -32768 ELSE v

\* ------------------------------------------------------------ scalar code
\* (int16_t)v
CastInt16(v) == Wrap16(v)

NoLowerClamp_sat_q15_scalar(v) ==
    IF v > Q15_MAX THEN Q15_MAX ELSE CastInt16(v)

sat_q15_scalar(v) ==
    IF v > Q15_MAX THEN Q15_MAX
    ELSE IF v < Q15_MIN THEN Q15_MIN
    ELSE CastInt16(v)

\* int32_t acc = (int32_t)a[i] + (int32_t)alpha * (int32_t)b[i].
\* Signed overflow is undefined in C: the build produces the exact value
\* when the sum fits, and may produce any of the listed values otherwise.
ScalarAcc(av, bv, al) ==
    LET p == SExt32(al) * SExt32(bv)
    IN  IF AddFits32(SExt32(av), p) THEN {SExt32(av) + p}
        ELSE {AddWrap32(SExt32(av), p), INT32_MIN, INT32_MAX}

Strict_RefLoopCond(i_, n_) == i_ <= n_

\* for (...; i < n; ...)
RefLoopCond(i_, n_) == i_ < n_

\* ------------------------------------------------------- RVV intrinsics
\* vsetvl_e16m1(avl): the set of vl values the V extension allows the
\* hardware to return for application vector length avl (RVV 1.0, 6.3):
\* avl when avl <= VLMAX, VLMAX when avl >= 2*VLMAX, and anything in
\* ceil(avl/2)..VLMAX in between.
NoCap_vsetvl_e16m1(avl, vlmax) == {vlmax}

ZeroOk_vsetvl_e16m1(avl, vlmax) == {0, Min(avl, vlmax)}

vsetvl_e16m1(avl, vlmax) ==
    IF avl <= vlmax THEN {avl}
    ELSE IF avl >= 2 * vlmax THEN {vlmax}
    ELSE ((avl + 1) \div 2)..vlmax

\* vle16_v_i16m1(base + i_, vl_): unit-stride load of vl_ lanes
vle16_v_i16m1(arr, i_, vl_, oob) ==
    [j \in 1..vl_ |-> IF i_ + j \in DOMAIN arr THEN arr[i_ + j] ELSE oob]

\* vwmul.vx: per lane, the 32-bit product of the sign-extended 16-bit
\* operands (at most 2^30 in magnitude, so it is the product itself)
Narrow_vwmul_vx_i32m2(v, x) ==
    [j \in DOMAIN v |-> Wrap16(v[j] * x)]

vwmul_vx_i32m2(v, x) ==
    [j \in DOMAIN v |-> SExt32(v[j]) * SExt32(x)]

ScalarOnly_vwadd_vx_i32m2(v, x) ==
    [j \in DOMAIN v |-> SExt32(x)]

\* vwadd.vx: per lane, the 32-bit sum of the sign-extended operands
vwadd_vx_i32m2(v, x) ==
    [j \in DOMAIN v |-> AddWrap32(SExt32(v[j]), SExt32(x))]

\* vadd.vv on 32-bit lanes: wraps modulo 2^32
Sew16_vadd_vv_i32m2(v, w) ==
    [j \in DOMAIN v |-> Wrap16(AddWrap32(v[j], w[j]))]

vadd_vv_i32m2(v, w) ==
    [j \in DOMAIN v |-> AddWrap32(v[j], w[j])]

\* vmin.vx / vmax.vx: signed per-lane minimum / maximum with a scalar
vmin_vx_i32m2(v, x) == [j \in DOMAIN v |-> Min(v[j], x)]

Swapped_vmax_vx_i32m2(v, x) == [j \in DOMAIN v |-> Min(v[j], x)]

vmax_vx_i32m2(v, x) == [j \in DOMAIN v |-> Max(v[j], x)]

\* vnclip.wx: per lane, shift right by the low 5 bits of the shift amount
\* with the rounding of mode vxrm (0 rnu, 1 rne, 2 rdn, 3 rod), then
\* saturate the result to 16 bits.
Bit(v, k) == (v \div (2^k)) % 2
LowBits(v, k) == v % (2^k)
RoundIncr(v, d, vxrm) ==
    IF d = 0 THEN 0
    ELSE CASE vxrm = 0 -> Bit(v, d - 1)
           [] vxrm = 1 -> IF Bit(v, d - 1) = 1
                             /\ (LowBits(v, d - 1) # 0 \/ Bit(v, d) = 1)
                          THEN 1 ELSE 0
           [] vxrm = 2 -> 0
           [] OTHER    -> IF Bit(v, d) = 0 /\ LowBits(v, d) # 0 THEN 1 ELSE 0
vnclip_wx_i16m1(v, shift, vxrm) ==
    [j \in DOMAIN v |->
        LET d == shift % 32
            r == (v[j] \div (2^d)) + RoundIncr(v[j], d, vxrm)
        IN  Saturate16(r)]

\* vse16_v_i16m1(base + i_, vy_, vl_): unit-stride store of vl_ lanes
\* (lanes that fall outside the array do not land in it)
vse16_v_i16m1(arr, i_, vy_, vl_) ==
    [k \in DOMAIN arr |->
        IF k > i_ /\ k <= i_ + vl_ THEN vy_[k - i_] ELSE arr[k]]

FullOnly_RvvLoopCond(i_, n_, vlmax) == i_ + vlmax <= n_

\* while (i < (size_t) n)
RvvLoopCond(i_, n_, vlmax) == i_ < n_

Overlap_Advance(i_, vl_) == IF vl_ > 1 THEN i_ + vl_ - 1 ELSE i_ + vl_

\* i += vl
Advance(i_, vl_) == i_ + vl_


\* a[i] / y[i] = v of the scalar loop
ScalarLoad(arr, i_, oob) == IF i_ + 1 \in DOMAIN arr THEN arr[i_ + 1] ELSE oob
ScalarStore(arr, i_, v) == [k \in DOMAIN arr |-> IF k = i_ + 1 THEN v ELSE arr[k]]

\* ------------------------------------------------------------------ state
VARIABLES
    n,        \* int n, the caller's length (n >= 0 by contract)
    alpha,    \* int16_t alpha
    VLMAX,    \* the hardware's lane count for e16/m1
    path,     \* "vector" or "fallback": which branch of the #if was built
    yp,       \* the array the pointer y designates: "y", or "a" / "b" when aliased
    a0,       \* contents of a when the call starts
    b0,       \* contents of b when the call starts
    y0,       \* contents of the output buffer when the call starts
    mem,      \* per call ("ref", "rvv"): the arrays a, b, y as the call sees them
    cur,      \* the top-level call in progress
    pc,       \* position in the code
    i,        \* loop cursor (int i of the scalar loop, size_t i of the vector loop)
    acc,      \* int32_t acc
    vl,       \* size_t vl
    va,       \* vint16m1_t va
    vb,       \* vint16m1_t vb
    vprod,    \* vint32m2_t vprod
    va32,     \* vint32m2_t va32
    vacc,     \* vint32m2_t vacc
    vy,       \* vint16m1_t vy
    log,      \* per call: the chunk-size queries, loads and stores done, in order
    iters,    \* per call: loop bodies entered
    t_pc,     \* clamp pipeline on one lane: position
    t_acc,    \* clamp pipeline: the 32-bit accumulator fed in
    t_v,      \* clamp pipeline: the lane register
    t_clamped \* clamp pipeline: the lane after vmin and vmax, before narrowing

vars == <<n, alpha, VLMAX, path, yp, a0, b0, y0, mem, cur, pc, i, acc, vl,
          va, vb, vprod, va32, vacc, vy, log, iters,
          t_pc, t_acc, t_v, t_clamped>>

inputs == <<n, alpha, VLMAX, path, yp, a0, b0, y0>>
vregs == <<va, vb, vprod, va32, vacc, vy>>
clampvars == <<t_pc, t_acc, t_v, t_clamped>>

Calls == {"ref", "rvv"}

Ev(op, arr, lo, len) == [op |-> op, arr |-> arr, lo |-> lo, len |-> len]
Logged(e) == log' = [log EXCEPT ![cur] = Append(@, e)]
Logged2(e, f) == log' = [log EXCEPT ![cur] = Append(Append(@, e), f)]

ClampIdle ==
    /\ t_pc = "idle"
    /\ t_acc = 0
    /\ t_v = <<>>
    /\ t_clamped = <<>>

\* The state when main calls q15_axpy_ref: both calls are given the same
\* a, b, n, alpha and each its own output buffer.  The buffers hold Pad
\* more elements than the n the functions are asked to process.
InitWith(ypset) ==
    /\ n \in 0..MaxN
    /\ alpha \in AlphaVals
    /\ VLMAX \in 1..MaxVLMAX
    /\ path \in {"vector", "fallback"}
    /\ yp \in ypset
    /\ \E sa \in 0..(Len(PatA) - 1), sb \in 0..(Len(PatB) - 1) :
          /\ a0 = Window(PatA, sa, n + Pad)
          /\ b0 = Window(PatB, sb, n + Pad)
    /\ \E f \in YFill : y0 = [j \in 1..(n + Pad) |-> f]
    /\ mem = [c \in Calls |-> [a |-> a0, b |-> b0, y |-> y0]]
    /\ cur = "ref"
    /\ pc = "call_ref"
    /\ i = 0
    /\ acc = 0
    /\ vl = 0
    /\ va = <<>> /\ vb = <<>> /\ vprod = <<>>
    /\ va32 = <<>> /\ vacc = <<>> /\ vy = <<>>
    /\ log = [c \in Calls |-> <<>>]
    /\ iters = [c \in Calls |-> 0]
    /\ ClampIdle

Init == InitWith({"y"})

InitAlias == InitWith({"a", "b"})

\* --------------------------------------------------------- q15_axpy_ref
CallRef ==
    /\ pc = "call_ref"
    /\ cur' = "ref"
    /\ i' = 0
    /\ pc' = "ref_test"
    /\ UNCHANGED <<inputs, mem, acc, vl, vregs, log, iters, clampvars>>

RefTest ==
    /\ pc = "ref_test"
    /\ IF RefLoopCond(i, n)
       THEN /\ pc' = "ref_acc"
            /\ iters' = [iters EXCEPT ![cur] = @ + 1]
       ELSE /\ pc' = "ref_ret"
            /\ UNCHANGED iters
    /\ UNCHANGED <<inputs, mem, cur, i, acc, vl, vregs, log, clampvars>>

RefAcc ==
    /\ pc = "ref_acc"
    /\ \E oob \in OobVals :
         \E v \in ScalarAcc(ScalarLoad(mem[cur].a, i, oob),
                            ScalarLoad(mem[cur].b, i, oob), alpha) :
            acc' = v
    /\ Logged2(Ev("load", "a", i, 1), Ev("load", "b", i, 1))
    /\ pc' = "ref_store"
    /\ UNCHANGED <<inputs, mem, cur, i, vl, vregs, iters, clampvars>>

RefStore ==
    /\ pc = "ref_store"
    /\ mem' = [mem EXCEPT ![cur][yp] = ScalarStore(@, i, sat_q15_scalar(acc))]
    /\ Logged(Ev("store", "y", i, 1))
    /\ pc' = "ref_inc"
    /\ UNCHANGED <<inputs, cur, i, acc, vl, vregs, iters, clampvars>>

RefInc ==
    /\ pc = "ref_inc"
    /\ i' = i + 1
    /\ pc' = "ref_test"
    /\ UNCHANGED <<inputs, mem, cur, acc, vl, vregs, log, iters, clampvars>>

\* return: to main after the reference call, to q15_axpy_rvv after the
\* fallback call
RefRet ==
    /\ pc = "ref_ret"
    /\ pc' = IF cur = "ref" THEN "call_rvv" ELSE "rvv_ret"
    /\ UNCHANGED <<inputs, mem, cur, i, acc, vl, vregs, log, iters, clampvars>>

\* --------------------------------------------------------- q15_axpy_rvv
CallRvv ==
    /\ pc = "call_rvv"
    /\ cur' = "rvv"
    /\ i' = 0
    /\ pc' = IF path = "fallback" THEN "ref_test" ELSE "rvv_test"
    /\ UNCHANGED <<inputs, mem, acc, vl, vregs, log, iters, clampvars>>

RvvTest ==
    /\ pc = "rvv_test"
    /\ IF RvvLoopCond(i, n, VLMAX)
       THEN /\ pc' = "vsetvl"
            /\ iters' = [iters EXCEPT ![cur] = @ + 1]
       ELSE /\ pc' = "rvv_ret"
            /\ UNCHANGED iters
    /\ UNCHANGED <<inputs, mem, cur, i, acc, vl, vregs, log, clampvars>>

RvvVsetvl ==
    /\ pc = "vsetvl"
    /\ \E v \in vsetvl_e16m1(n - i, VLMAX) :
          /\ vl' = v
          /\ Logged(Ev("vsetvl", "", i, v))
    /\ pc' = "vle_a"
    /\ UNCHANGED <<inputs, mem, cur, i, acc, vregs, iters, clampvars>>

RvvLoadA ==
    /\ pc = "vle_a"
    /\ \E oob \in OobVals : va' = vle16_v_i16m1(mem[cur].a, i, vl, oob)
    /\ Logged(Ev("load", "a", i, vl))
    /\ pc' = "vle_b"
    /\ UNCHANGED <<inputs, mem, cur, i, acc, vl, vb, vprod, va32, vacc, vy,
                   iters, clampvars>>

RvvLoadB ==
    /\ pc = "vle_b"
    /\ \E oob \in OobVals : vb' = vle16_v_i16m1(mem[cur].b, i, vl, oob)
    /\ Logged(Ev("load", "b", i, vl))
    /\ pc' = "vwmul"
    /\ UNCHANGED <<inputs, mem, cur, i, acc, vl, va, vprod, va32, vacc, vy,
                   iters, clampvars>>

RvvWmul ==
    /\ pc = "vwmul"
    /\ vprod' = vwmul_vx_i32m2(vb, alpha)
    /\ pc' = "vwadd"
    /\ UNCHANGED <<inputs, mem, cur, i, acc, vl, va, vb, va32, vacc, vy,
                   log, iters, clampvars>>

RvvWadd ==
    /\ pc = "vwadd"
    /\ va32' = vwadd_vx_i32m2(va, 0)
    /\ pc' = "vadd"
    /\ UNCHANGED <<inputs, mem, cur, i, acc, vl, va, vb, vprod, vacc, vy,
                   log, iters, clampvars>>

RvvAdd ==
    /\ pc = "vadd"
    /\ vacc' = vadd_vv_i32m2(va32, vprod)
    /\ pc' = "vmin"
    /\ UNCHANGED <<inputs, mem, cur, i, acc, vl, va, vb, vprod, va32, vy,
                   log, iters, clampvars>>

RvvMin ==
    /\ pc = "vmin"
    /\ vacc' = vmin_vx_i32m2(vacc, 32767)
    /\ pc' = "vmax"
    /\ UNCHANGED <<inputs, mem, cur, i, acc, vl, va, vb, vprod, va32, vy,
                   log, iters, clampvars>>

RvvMax ==
    /\ pc = "vmax"
    /\ vacc' = vmax_vx_i32m2(vacc, -32768)
    /\ pc' = "vnclip"
    /\ UNCHANGED <<inputs, mem, cur, i, acc, vl, va, vb, vprod, va32, vy,
                   log, iters, clampvars>>

\* the rounding mode is whatever the vxrm CSR holds when the call is made
RvvNclip ==
    /\ pc = "vnclip"
    /\ \E vxrm \in 0..3 : vy' = vnclip_wx_i16m1(vacc, 0, vxrm)
    /\ pc' = "vse"
    /\ UNCHANGED <<inputs, mem, cur, i, acc, vl, va, vb, vprod, va32, vacc,
                   log, iters, clampvars>>

RvvStore ==
    /\ pc = "vse"
    /\ mem' = [mem EXCEPT ![cur][yp] = vse16_v_i16m1(@, i, vy, vl)]
    /\ Logged(Ev("store", "y", i, vl))
    /\ pc' = "advance"
    /\ UNCHANGED <<inputs, cur, i, acc, vl, vregs, iters, clampvars>>

RvvAdvance ==
    /\ pc = "advance"
    /\ i' = Advance(i, vl)
    /\ pc' = "rvv_test"
    /\ UNCHANGED <<inputs, mem, cur, acc, vl, vregs, log, iters, clampvars>>

RvvRet ==
    /\ pc = "rvv_ret"
    /\ pc' = "done"
    /\ UNCHANGED <<inputs, mem, cur, i, acc, vl, vregs, log, iters, clampvars>>

Next ==
    \/ CallRef \/ RefTest \/ RefAcc \/ RefStore \/ RefInc \/ RefRet
    \/ CallRvv \/ RvvTest \/ RvvVsetvl \/ RvvLoadA \/ RvvLoadB
    \/ RvvWmul \/ RvvWadd \/ RvvAdd \/ RvvMin \/ RvvMax \/ RvvNclip
    \/ RvvStore \/ RvvAdvance \/ RvvRet

Spec == Init /\ [][Next]_vars

\* ------------------------------------------- the clamp-and-narrow lines
\* Lines 99-104 on one lane, fed any 32-bit accumulator value.
AccCentres ==
    {INT32_MIN + 2, -(2^30), -65536, -32768, 0, 32767, 65535, 2^30, INT32_MAX - 2}
AccVals == {c + d : c \in AccCentres, d \in -2..2}

InitClamp ==
    /\ t_acc \in AccVals
    /\ t_v = <<t_acc>>
    /\ t_clamped = <<>>
    /\ t_pc = "vmin"
    /\ n = 0 /\ alpha = 0 /\ VLMAX = 1 /\ path = "vector" /\ yp = "y"
    /\ a0 = <<>> /\ b0 = <<>> /\ y0 = <<>>
    /\ mem = [c \in Calls |-> [a |-> a0, b |-> b0, y |-> y0]]
    /\ cur = "rvv"
    /\ pc = "done"
    /\ i = 0 /\ acc = 0 /\ vl = 0
    /\ va = <<>> /\ vb = <<>> /\ vprod = <<>>
    /\ va32 = <<>> /\ vacc = <<>> /\ vy = <<>>
    /\ log = [c \in Calls |-> <<>>]
    /\ iters = [c \in Calls |-> 0]

mainvars == <<inputs, mem, cur, pc, i, acc, vl, vregs, log, iters>>

ClampMin ==
    /\ t_pc = "vmin"
    /\ t_v' = vmin_vx_i32m2(t_v, 32767)
    /\ t_pc' = "vmax"
    /\ UNCHANGED <<mainvars, t_acc, t_clamped>>

ClampMax ==
    /\ t_pc = "vmax"
    /\ t_v' = vmax_vx_i32m2(t_v, -32768)
    /\ t_clamped' = t_v'
    /\ t_pc' = "vnclip"
    /\ UNCHANGED <<mainvars, t_acc>>

ClampNclip ==
    /\ t_pc = "vnclip"
    /\ \E vxrm \in 0..3 : t_v' = vnclip_wx_i16m1(t_v, 0, vxrm)
    /\ t_pc' = "done"
    /\ UNCHANGED <<mainvars, t_acc, t_clamped>>

NextClamp == ClampMin \/ ClampMax \/ ClampNclip

SpecClamp == InitClamp /\ [][NextClamp]_vars

\* Both functions run to completion on the calling thread: a step that can
\* be taken is taken.
FairSpec == Init /\ [][Next]_vars /\ WF_vars(Next)

SpecAlias == InitAlias /\ [][Next]_vars


\* ================================================================ claims
\* saturate_16(a0[k] + alpha*b0[k]) for sequence index k (C index k-1)
Expected(k) == Saturate16(Exact(a0[k], b0[k], alpha))

\* q15_axpy_ref called from main has returned
RefReturned == pc = "call_rvv" \/ (cur = "rvv" /\ t_pc = "idle")
\* q15_axpy_rvv has returned
RvvReturned == pc = "done" /\ t_pc = "idle"

Covers(e, k) == e.lo <= k /\ k < e.lo + e.len
\* number of stores of call c that wrote C index k
WriteCount(c, k) ==
    Cardinality({p \in DOMAIN log[c] : log[c][p].op = "store" /\ Covers(log[c][p], k)})

\* C1: when both calls have returned, the vectorized output y1 equals the
\* reference output y0 at every index below n, on the vector path under
\* every chunk size the hardware may return and on the fallback path.
C1_Equivalence ==
    RvvReturned => \A k \in 1..n : mem["rvv"].y[k] = mem["ref"].y[k]

C1_Witness ==
    /\ RvvReturned
    /\ path = "vector"
    /\ n = 4 /\ VLMAX = 3
    /\ iters["rvv"] = 2
    /\ log["rvv"][1].len = 2
    /\ \E k \in 1..n : mem["rvv"].y[k] = 32767
    /\ \E k \in 1..n : mem["rvv"].y[k] = -32768

\* C2: after q15_axpy_ref, y[i] is 32767 when a[i] + alpha*b[i] > 32767,
\* -32768 when it is < -32768 and the exact sum otherwise; the three worked
\* examples give 32767, -32768 and 120.
RefOutputOK(c) ==
    \A k \in 1..n :
        LET e == Exact(a0[k], b0[k], alpha)
            y == mem[c].y[k]
        IN  /\ e > 32767 => y = 32767
            /\ e < -32768 => y = -32768
            /\ (e >= -32768 /\ e <= 32767) => y = e
            /\ (a0[k] = 32767 /\ b0[k] = 32767 /\ alpha = 32767) => y = 32767
            /\ (a0[k] = -32768 /\ b0[k] = 32767 /\ alpha = -32768) => y = -32768
            /\ (a0[k] = 100 /\ b0[k] = 10 /\ alpha = 2) => y = 120

C2_RefClamp ==
    /\ RefReturned => RefOutputOK("ref")
    /\ (RvvReturned /\ path = "fallback") => RefOutputOK("rvv")

C2_Witness ==
    /\ RefReturned
    /\ alpha = -32768
    /\ \E k \in 1..n : a0[k] = -32768 /\ b0[k] = 32767 /\ mem["ref"].y[k] = -32768
    /\ \E k \in 1..n : Exact(a0[k], b0[k], alpha) > 32767 /\ mem["ref"].y[k] = 32767

\* C3: on the vector path, when n is not a multiple of the hardware width
\* VLMAX, the last chunk is shorter than VLMAX, comes from the same
\* vsetvl/load/load/store loop body as the others, ends at n, and every
\* index below n holds saturate_16(a[i] + alpha*b[i]), whatever VLMAX is.
C3_PartialChunk ==
    (RvvReturned /\ path = "vector" /\ n % VLMAX # 0) =>
        LET L == log["rvv"]
            m == Len(L)
        IN  /\ m >= 4
            /\ L[m].op = "store" /\ L[m - 3].op = "vsetvl"
            /\ L[m].len = L[m - 3].len /\ L[m].lo = L[m - 3].lo
            /\ L[m].len >= 1 /\ L[m].len < VLMAX
            /\ L[m].lo + L[m].len = n
            /\ m = 4 * iters["rvv"]
            /\ \A k \in 1..n : mem["rvv"].y[k] = Expected(k)

C3_Witness ==
    /\ RvvReturned
    /\ path = "vector"
    /\ VLMAX >= 2
    /\ n = VLMAX + 1
    /\ log["rvv"][Len(log["rvv"])].len = 1

\* C4: with alpha = 0 both functions leave y[i] = a[i] at every index
\* below n, whatever b holds.
C4_ZeroGain ==
    alpha = 0 =>
        /\ RefReturned => \A k \in 1..n : mem["ref"].y[k] = a0[k]
        /\ RvvReturned => \A k \in 1..n : mem["rvv"].y[k] = a0[k]

C4_Witness ==
    /\ RvvReturned
    /\ alpha = 0
    /\ path = "vector"
    /\ n >= 2
    /\ \E k \in 1..n : b0[k] # 0 /\ a0[k] # y0[k]

\* C5: with n = 0 neither function enters its loop body: no chunk-size
\* query, no load, no store, and the buffers are as they were.
C5_EmptyInput ==
    (n = 0 /\ t_pc = "idle") =>
        \A c \in Calls :
            /\ log[c] = <<>>
            /\ iters[c] = 0
            /\ mem[c] = [a |-> a0, b |-> b0, y |-> y0]

C5_Witness ==
    /\ RvvReturned
    /\ n = 0
    /\ path = "vector"

\* C6: in the vector loop the chunks [i, i+vl) are non-empty, start at 0,
\* each starts where the previous one ended (contiguous, non-overlapping,
\* increasing), each is queried, loaded from a, loaded from b and stored
\* before the next one is touched, none reaches index n or beyond, and on
\* return they cover [0, n): each index below n was stored exactly once and
\* nothing at or beyond n changed.
C6_Chunks ==
    (path = "vector" /\ t_pc = "idle") =>
        LET L == log["rvv"]
        IN  /\ \A p \in DOMAIN L :
                 LET g == (p - 1) \div 4
                     r == ((p - 1) % 4) + 1
                     h == L[4 * g + 1]
                 IN  /\ L[p].op = <<"vsetvl", "load", "load", "store">>[r]
                     /\ L[p].arr = <<"", "a", "b", "y">>[r]
                     /\ L[p].lo = h.lo /\ L[p].len = h.len
                     /\ h.len >= 1
                     /\ h.lo >= 0 /\ h.lo + h.len <= n
                     /\ IF g = 0 THEN h.lo = 0
                        ELSE h.lo = L[4 * g - 3].lo + L[4 * g - 3].len
            /\ \A k \in 0..(n - 1) : WriteCount("rvv", k) <= 1
            /\ \A k \in (n + 1)..(n + Pad) : mem["rvv"].y[k] = y0[k]
            /\ RvvReturned => \A k \in 0..(n - 1) : WriteCount("rvv", k) = 1

C6_Witness ==
    /\ RvvReturned
    /\ path = "vector"
    /\ iters["rvv"] >= 3
    /\ \E p \in DOMAIN log["rvv"] : log["rvv"][p].len >= 2

\* C7: in the vector loop every queried chunk size satisfies
\* 1 <= vl <= n - i, the cursor strictly increases at each advance and never
\* exceeds n, at most n loop bodies are entered, and the call returns, with
\* i = n and every index below n written.
C7_StateInv ==
    (path = "vector" /\ cur = "rvv" /\ t_pc = "idle") =>
        /\ i <= n
        /\ iters["rvv"] <= n
        /\ pc \in {"vle_a", "vle_b", "vwmul", "vwadd", "vadd", "vmin", "vmax",
                   "vnclip", "vse", "advance"} => (1 <= vl /\ vl <= n - i)
        /\ pc \in {"rvv_ret", "done"} =>
              /\ i = n
              /\ \A k \in 0..(n - 1) : WriteCount("rvv", k) >= 1

C7_Progress ==
    /\ []C7_StateInv
    /\ [][pc = "advance" => (i' > i /\ i' <= n)]_vars
    /\ <>(pc = "done")

C7_Witness ==
    /\ RvvReturned
    /\ path = "vector"
    /\ n = MaxN
    /\ iters["rvv"] = n

\* C8: the exact a[i] + alpha*b[i] fits in 32 bits (the product is at most
\* 2^30 in magnitude), and both the scalar acc and every lane of the vector
\* accumulator hold exactly that integer before clamping.
C8_NoWrap ==
    /\ pc = "ref_store" =>
          LET av == mem[cur].a[i + 1]
              bv == mem[cur].b[i + 1]
          IN  /\ alpha * bv <= 2^30 /\ alpha * bv >= -(2^30)
              /\ AddFits32(av, alpha * bv)
              /\ acc = Exact(av, bv, alpha)
    /\ (pc = "vadd" /\ t_pc = "idle") =>
          \A j \in 1..vl :
              /\ vprod[j] = alpha * mem[cur].b[i + j]
              /\ va32[j] = mem[cur].a[i + j]
    /\ (pc = "vmin" /\ t_pc = "idle") =>
          \A j \in 1..vl :
              vacc[j] = Exact(mem[cur].a[i + j], mem[cur].b[i + j], alpha)

C8_Witness ==
    /\ pc = "vmin"
    /\ vl >= 2
    /\ \E j \in 1..vl : vacc[j] = 2^30 + 32767
    /\ \E j \in 1..vl : vacc[j] < 0

\* C9: for every 32-bit accumulator value, min with 32767, then max with
\* -32768, then vnclip with shift 0 gives sat_q15_scalar of it; the clamped
\* value is in [-32768, 32767], max-then-min gives the same value, and the
\* narrowing leaves the clamped value as it is.
C9_ClampNarrow ==
    t_pc = "done" =>
        /\ t_v[1] = sat_q15_scalar(t_acc)
        /\ t_clamped[1] >= -32768 /\ t_clamped[1] <= 32767
        /\ vmin_vx_i32m2(vmax_vx_i32m2(<<t_acc>>, -32768), 32767) = t_clamped
        /\ t_v = t_clamped

C9_Witness ==
    /\ t_pc = "done"
    /\ t_acc = INT32_MIN
    /\ t_v = <<-32768>>

\* C10: when y is the array a, or the array b, both functions still leave
\* saturate_16(a0[i] + alpha*b0[i]) of the original contents at every index
\* below n, and no load reads an index that an earlier store wrote.
LoadsBeforeStores(c) ==
    \A p, q \in DOMAIN log[c] :
        (/\ p < q
         /\ log[c][p].op = "store"
         /\ log[c][q].op = "load"
         /\ log[c][q].arr = yp)
        => \A k \in 0..(n + Pad) : ~(Covers(log[c][p], k) /\ Covers(log[c][q], k))

C10_Aliased ==
    (yp # "y" /\ t_pc = "idle") =>
        /\ RefReturned => \A k \in 1..n : mem["ref"][yp][k] = Expected(k)
        /\ RvvReturned => \A k \in 1..n : mem["rvv"][yp][k] = Expected(k)
        /\ \A c \in Calls : LoadsBeforeStores(c)

C10_Witness ==
    /\ RvvReturned
    /\ yp = "a"
    /\ path = "vector"
    /\ iters["rvv"] >= 2
    /\ \E k \in 1..n : mem["rvv"].a[k] # a0[k]

====
